---- MODULE Spec2Model ----
(***************************************************************************)
(* Model of src/starter_code.py: the three search algorithms               *)
(* (linear_search, binary_search_iterative, binary_search_recursive), the  *)
(* benchmark runner (benchmark_algorithm) and the break-even block of      *)
(* analyze_preprocessing_costs.                                            *)
(*                                                                         *)
(* A behaviour is one run of one of three programs, selected by Init:      *)
(*   - the search program: the three algorithms are run one after the      *)
(*     other on the same (data, target), statement by statement;           *)
(*   - the benchmark program: one call of benchmark_algorithm;             *)
(*   - the analyzer program: lines 251-255 on three measured durations.    *)
(* Python indices are zero-based; At(d, k) reads d[k].  Durations are      *)
(* integer numbers of clock ticks, quotients are exact.                    *)
(***************************************************************************)
EXTENDS Integers, Sequences, FiniteSets

VARIABLES
    pc,           \* position of the running program
    data,         \* the list searched
    target,       \* the item searched for
    i,            \* linear_search: loop variable of line 32
    lin_result,   \* <<v>> once linear_search has returned v, <<>> before
    left,         \* binary_search_iterative: local left
    right,        \* binary_search_iterative: local right
    iter_result,  \* <<v>> once binary_search_iterative has returned v
    iter_trace,   \* history: (left, right, middle, comparison) per iteration
    stack,        \* binary_search_recursive: call chain, innermost frame last
    rec_result,   \* <<v>> once binary_search_recursive has returned v
    rec_trace,    \* history: (left, right, middle, comparison) per frame
    targets,      \* benchmark_algorithm: the batch
    t_idx,        \* benchmark_algorithm: number of targets consumed by line 177
    calls,        \* history: targets passed to search_function, in order
    start,        \* benchmark_algorithm: clock read of line 175
    end,          \* benchmark_algorithm: clock read of line 180
    bench_out,    \* outcome of benchmark_algorithm
    sort_time,    \* analyzer: measured one-time sort cost
    linear_time,  \* analyzer: measured per-query cost, unsorted path
    binary_time,  \* analyzer: measured per-query cost, sorted path
    printed       \* analyzer: lines printed by lines 251-255

vars == <<pc, data, target, i, lin_result, left, right, iter_result,
          iter_trace, stack, rec_result, rec_trace, targets, t_idx, calls,
          start, end, bench_out, sort_time, linear_time, binary_time,
          printed>>

searchVars == <<data, target, i, lin_result, left, right, iter_result,
                iter_trace, stack, rec_result, rec_trace>>

benchVars == <<targets, t_idx, calls, start, end, bench_out>>

analyzeVars == <<sort_time, linear_time, binary_time, printed>>

(***************************************************************************)
(* Bounds                                                                  *)
(***************************************************************************)
MaxLen == 4        \* longest list searched
MaxVal == 3        \* list elements are 1..MaxVal, targets 0..MaxVal+1
MaxBatch == 3      \* longest batch of targets
MaxElapsed == 3    \* largest elapsed time of a batch, in ticks
MaxSortTime == 11  \* largest sort cost, in ticks
MaxQueryTime == 4  \* largest per-query cost, in ticks
MaxQueries == 13   \* query counts examined against the break-even point

(***************************************************************************)
(* Helpers                                                                 *)
(***************************************************************************)
At(d, k) == d[k + 1]

IsSorted(d) == \A k \in 1..(Len(d) - 1) : d[k] <= d[k + 1]

NoDuplicates(d) == \A j, k \in 1..Len(d) : j # k => d[j] # d[k]

Occurs(d, t) == \E k \in 1..Len(d) : d[k] = t

Lists == UNION {[1..n -> 1..MaxVal] : n \in 0..MaxLen}

Batches == UNION {[1..n -> 0..1] : n \in 0..MaxBatch}

Top(s) == s[Len(s)]

Pop(s) == SubSeq(s, 1, Len(s) - 1)

(***************************************************************************)
(* Initial states: the arguments of the program being run                  *)
(***************************************************************************)
SearchIdle ==
    /\ data = <<>> /\ target = 0 /\ i = 0 /\ lin_result = <<>>
    /\ left = 0 /\ right = 0 /\ iter_result = <<>> /\ iter_trace = <<>>
    /\ stack = <<>> /\ rec_result = <<>> /\ rec_trace = <<>>

BenchIdle ==
    /\ targets = <<>> /\ t_idx = 0 /\ calls = <<>> /\ start = 0 /\ end = 0
    /\ bench_out = [kind |-> "pending", exc |-> "", num |-> 0, den |-> 0]

AnalyzeIdle ==
    /\ sort_time = 0 /\ linear_time = 0 /\ binary_time = 0 /\ printed = <<>>

InitSearch ==
    /\ pc = "linear"
    /\ data \in Lists
    /\ target \in 0..(MaxVal + 1)
    /\ i = 0 /\ lin_result = <<>>
    /\ left = 0 /\ right = 0 /\ iter_result = <<>> /\ iter_trace = <<>>
    /\ stack = <<>> /\ rec_result = <<>> /\ rec_trace = <<>>
    /\ BenchIdle /\ AnalyzeIdle

InitBench ==
    /\ pc = "bench_start"
    /\ targets \in Batches
    /\ t_idx = 0 /\ calls = <<>> /\ start = 0 /\ end = 0
    /\ bench_out = [kind |-> "pending", exc |-> "", num |-> 0, den |-> 0]
    /\ SearchIdle /\ AnalyzeIdle

InitAnalyze ==
    /\ pc = "analyze"
    /\ sort_time \in 0..MaxSortTime
    /\ linear_time \in 0..MaxQueryTime
    /\ binary_time \in 0..MaxQueryTime
    /\ printed = <<>>
    /\ SearchIdle /\ BenchIdle

Init == InitSearch \/ InitBench \/ InitAnalyze

(***************************************************************************)
(* linear_search, lines 32-35                                              *)
(***************************************************************************)
LinearAdvanceStride(k) == k + 2

\* line 32: the next value of i drawn from range(len(data))
LinearAdvance(k) == k + 1

\* line 35
LinearNotFound == -1

linear_search ==
    /\ pc = "linear"
    /\ IF i < Len(data)
         THEN IF At(data, i) = target
                THEN /\ lin_result' = <<i>>
                     /\ pc' = "iter_call"
                     /\ i' = i
                ELSE /\ i' = LinearAdvance(i)
                     /\ UNCHANGED <<pc, lin_result>>
         ELSE /\ lin_result' = <<LinearNotFound>>
              /\ pc' = "iter_call"
              /\ i' = i
    /\ UNCHANGED <<data, target, left, right, iter_result, iter_trace,
                   stack, rec_result, rec_trace>>
    /\ UNCHANGED benchVars /\ UNCHANGED analyzeVars

(***************************************************************************)
(* binary_search_iterative, lines 61-71                                    *)
(***************************************************************************)
\* lines 65-70 and 106-111: if == / elif < / else
Compare(x, t) == IF x = t THEN "eq" ELSE IF x < t THEN "lt" ELSE "gt"

IterLoopCondStrict(l, r) == l < r

\* line 63
IterLoopCond(l, r) == l <= r

\* line 64
IterMiddle(l, r) == (l + r) \div 2

IterNarrowLeftStuck(m) == m

\* line 68
IterNarrowLeft(m) == m + 1

\* line 70
IterNarrowRight(m) == m - 1

IterNotFoundInsertionPoint == left

\* line 71
IterNotFound == -1

\* lines 61-62
binary_search_iterative_init ==
    /\ pc = "iter_call"
    /\ left' = 0
    /\ right' = Len(data) - 1
    /\ pc' = "iter_loop"
    /\ UNCHANGED <<data, target, i, lin_result, iter_result, iter_trace,
                   stack, rec_result, rec_trace>>
    /\ UNCHANGED benchVars /\ UNCHANGED analyzeVars

\* lines 63-71: one evaluation of the loop condition and, when it holds,
\* one execution of the loop body
binary_search_iterative_loop ==
    /\ pc = "iter_loop"
    /\ IF IterLoopCond(left, right)
         THEN LET middle == IterMiddle(left, right)
                  c == Compare(At(data, middle), target)
              IN /\ iter_trace' = Append(iter_trace, <<left, right, middle, c>>)
                 /\ CASE c = "eq" -> /\ iter_result' = <<middle>>
                                     /\ pc' = "rec_call"
                                     /\ UNCHANGED <<left, right>>
                      [] c = "lt" -> /\ left' = IterNarrowLeft(middle)
                                     /\ UNCHANGED <<right, iter_result, pc>>
                      [] c = "gt" -> /\ right' = IterNarrowRight(middle)
                                     /\ UNCHANGED <<left, iter_result, pc>>
         ELSE /\ iter_result' = <<IterNotFound>>
              /\ pc' = "rec_call"
              /\ UNCHANGED <<left, right, iter_trace>>
    /\ UNCHANGED <<data, target, i, lin_result, stack, rec_result, rec_trace>>
    /\ UNCHANGED benchVars /\ UNCHANGED analyzeVars

(***************************************************************************)
(* binary_search_recursive, lines 96-111.  stack holds one frame           *)
(* [left, right] per active call.                                          *)
(***************************************************************************)
RecBaseCaseEager(l, r) == l >= r

\* line 101
RecBaseCase(l, r) == l > r

RecMiddleCeil(l, r) == (l + r + 1) \div 2

\* line 104
RecMiddle(l, r) == (l + r) \div 2

\* line 102
RecNotFound == -1

\* lines 96-99: the call without bounds; left and right are None and take
\* their defaults
binary_search_recursive_call ==
    /\ pc = "rec_call"
    /\ stack' = <<[left |-> 0, right |-> Len(data) - 1]>>
    /\ pc' = "rec_body"
    /\ UNCHANGED <<data, target, i, lin_result, left, right, iter_result,
                   iter_trace, rec_result, rec_trace>>
    /\ UNCHANGED benchVars /\ UNCHANGED analyzeVars

\* lines 101-111 in the innermost frame; a recursive call passes explicit
\* bounds, so lines 96-99 leave them as passed
binary_search_recursive_body ==
    /\ pc = "rec_body"
    /\ LET f == Top(stack)
       IN IF RecBaseCase(f.left, f.right)
            THEN /\ rec_result' = <<RecNotFound>>
                 /\ pc' = "rec_return"
                 /\ UNCHANGED <<stack, rec_trace>>
            ELSE LET middle == RecMiddle(f.left, f.right)
                     c == Compare(At(data, middle), target)
                 IN /\ rec_trace' = Append(rec_trace,
                                          <<f.left, f.right, middle, c>>)
                    /\ CASE c = "eq" ->
                              /\ rec_result' = <<middle>>
                              /\ pc' = "rec_return"
                              /\ UNCHANGED stack
                         [] c = "lt" ->
                              /\ stack' = Append(stack,
                                    [left |-> middle + 1, right |-> f.right])
                              /\ UNCHANGED <<rec_result, pc>>
                         [] c = "gt" ->
                              /\ stack' = Append(stack,
                                    [left |-> f.left, right |-> middle - 1])
                              /\ UNCHANGED <<rec_result, pc>>
    /\ UNCHANGED <<data, target, i, lin_result, left, right, iter_result,
                   iter_trace>>
    /\ UNCHANGED benchVars /\ UNCHANGED analyzeVars

\* the return statements of lines 102, 107, 109, 111: the innermost frame
\* returns the value to its caller, which returns it unchanged
binary_search_recursive_return ==
    /\ pc = "rec_return"
    /\ stack' = Pop(stack)
    /\ pc' = IF Len(stack) = 1 THEN "done" ELSE "rec_return"
    /\ UNCHANGED <<data, target, i, lin_result, left, right, iter_result,
                   iter_trace, rec_result, rec_trace>>
    /\ UNCHANGED benchVars /\ UNCHANGED analyzeVars

(***************************************************************************)
(* benchmark_algorithm, lines 175-181.  search_function is pure: a call    *)
(* changes no state, and calls records the target it was given.            *)
(***************************************************************************)
\* line 175
benchmark_algorithm_start ==
    /\ pc = "bench_start"
    /\ start' \in 0..1
    /\ pc' = "bench_loop"
    /\ UNCHANGED <<targets, t_idx, calls, end, bench_out>>
    /\ UNCHANGED searchVars /\ UNCHANGED analyzeVars

\* lines 177-178
benchmark_algorithm_loop ==
    /\ pc = "bench_loop"
    /\ t_idx < Len(targets)
    /\ calls' = Append(calls, targets[t_idx + 1])
    /\ t_idx' = t_idx + 1
    /\ UNCHANGED <<pc, targets, start, end, bench_out>>
    /\ UNCHANGED searchVars /\ UNCHANGED analyzeVars

\* line 180
benchmark_algorithm_end ==
    /\ pc = "bench_loop"
    /\ t_idx = Len(targets)
    /\ end' \in start..(start + MaxElapsed)
    /\ pc' = "bench_divide"
    /\ UNCHANGED <<targets, t_idx, calls, start, bench_out>>
    /\ UNCHANGED searchVars /\ UNCHANGED analyzeVars

\* line 181: float / int raises ZeroDivisionError when the int is 0
benchmark_algorithm_divide ==
    /\ pc = "bench_divide"
    /\ bench_out' = IF Len(targets) = 0
                      THEN [kind |-> "raise", exc |-> "ZeroDivisionError",
                            num |-> end - start, den |-> Len(targets)]
                      ELSE [kind |-> "return", exc |-> "",
                            num |-> end - start, den |-> Len(targets)]
    /\ pc' = "bench_done"
    /\ UNCHANGED <<targets, t_idx, calls, start, end>>
    /\ UNCHANGED searchVars /\ UNCHANGED analyzeVars

(***************************************************************************)
(* analyze_preprocessing_costs, lines 251-255                              *)
(***************************************************************************)
IntOfQuotientLow(num, den) == (num \div den) - 1

\* lines 253-255: int(sort_time / time_saved_per_search); int() truncates
\* toward zero
IntOfQuotient(num, den) ==
    IF num >= 0 THEN num \div den ELSE -((-num) \div den)

analyze_preprocessing_costs ==
    /\ pc = "analyze"
    /\ LET time_saved_per_search == linear_time - binary_time
       IN IF time_saved_per_search > 0
            THEN LET n == IntOfQuotient(sort_time, time_saved_per_search)
                 IN printed' = <<[text |-> "Break-even point: n searches",
                                  n |-> n],
                                 [text |-> "After n searches, sorting + binary search becomes faster",
                                  n |-> n]>>
            ELSE printed' = <<>>
    /\ pc' = "analyze_done"
    /\ UNCHANGED <<sort_time, linear_time, binary_time>>
    /\ UNCHANGED searchVars /\ UNCHANGED benchVars

(***************************************************************************)
(* Specifications                                                          *)
(***************************************************************************)
Next ==
    \/ linear_search
    \/ binary_search_iterative_init
    \/ binary_search_iterative_loop
    \/ binary_search_recursive_call
    \/ binary_search_recursive_body
    \/ binary_search_recursive_return
    \/ benchmark_algorithm_start
    \/ benchmark_algorithm_loop
    \/ benchmark_algorithm_end
    \/ benchmark_algorithm_divide
    \/ analyze_preprocessing_costs

Spec == Init /\ [][Next]_vars

\* The interpreter is sequential and always executes the next statement of
\* the running program.
FairSpec == Spec /\ WF_vars(Next)

(***************************************************************************)
(* Properties                                                              *)
(***************************************************************************)
LinearReturned ==
    pc \in {"iter_call", "iter_loop", "rec_call", "rec_body", "rec_return",
            "done"}

Indices(d) == 0..(Len(d) - 1)

\* C1: on a list sorted ascending (duplicates allowed) that contains the
\* target, binary_search_iterative and binary_search_recursive each return
\* an index inside the list at which the target stands.
C1_BisectionFindsPresent ==
    (pc = "done" /\ IsSorted(data) /\ Occurs(data, target)) =>
        /\ iter_result[1] \in Indices(data)
        /\ At(data, iter_result[1]) = target
        /\ rec_result[1] \in Indices(data)
        /\ At(data, rec_result[1]) = target

\* a sorted list with duplicates of the target, where bisection lands on an
\* occurrence other than the first
C1_Witness ==
    /\ pc = "done"
    /\ IsSorted(data)
    /\ Len(data) >= 3
    /\ Occurs(data, target)
    /\ iter_result[1] \in Indices(data)
    /\ rec_result[1] \in Indices(data)
    /\ At(data, iter_result[1]) = target
    /\ At(data, rec_result[1]) = target
    /\ iter_result[1] # lin_result[1]

\* C2: on a list sorted ascending (the empty and the single-element list
\* included) that does not contain the target, both bisection variants
\* return -1.
C2_BisectionAbsentNotFound ==
    (pc = "done" /\ IsSorted(data) /\ ~Occurs(data, target)) =>
        (iter_result[1] = -1 /\ rec_result[1] = -1)

\* a sorted list of three or more elements and an absent target lying
\* strictly between its smallest and its largest element
C2_Witness ==
    /\ pc = "done"
    /\ IsSorted(data)
    /\ Len(data) >= 3
    /\ ~Occurs(data, target)
    /\ data[1] < target
    /\ target < data[Len(data)]
    /\ iter_result[1] = -1
    /\ rec_result[1] = -1

\* C3: on a list in any order, linear_search returns the smallest index
\* holding the target when the target occurs, and -1 when it does not.
C3_LinearFirstOrNotFound ==
    LinearReturned =>
        IF Occurs(data, target)
          THEN /\ lin_result[1] \in Indices(data)
               /\ At(data, lin_result[1]) = target
               /\ \A k \in Indices(data) :
                      At(data, k) = target => lin_result[1] <= k
          ELSE lin_result[1] = -1

\* an unsorted list holding the target twice, first at a position other
\* than the front
C3_Witness ==
    /\ LinearReturned
    /\ ~IsSorted(data)
    /\ Cardinality({k \in Indices(data) : At(data, k) = target}) >= 2
    /\ lin_result[1] >= 1
    /\ At(data, lin_result[1]) = target

\* C4: on a list sorted ascending without duplicates the three algorithms
\* return the same result, for present and for absent targets.
C4_AgreementOnUnique ==
    (pc = "done" /\ IsSorted(data) /\ NoDuplicates(data)) =>
        (iter_result[1] = rec_result[1] /\ rec_result[1] = lin_result[1])

\* a sorted duplicate-free list of three elements whose target is found by
\* all three at the same non-zero index
C4_Witness ==
    /\ pc = "done"
    /\ IsSorted(data)
    /\ NoDuplicates(data)
    /\ Len(data) >= 3
    /\ lin_result[1] >= 1
    /\ iter_result[1] = lin_result[1]
    /\ rec_result[1] = lin_result[1]

\* C5: benchmark_algorithm called with an empty batch never reaches the
\* division by the batch length and ends by raising a precondition error,
\* not the arithmetic error of the division, and returns no mean latency.
C5_EmptyBatchGuarded ==
    (pc \in {"bench_start", "bench_loop", "bench_divide", "bench_done"}
       /\ Len(targets) = 0) =>
        /\ pc # "bench_divide"
        /\ pc = "bench_done" =>
              (bench_out.kind = "raise" /\ bench_out.exc # "ZeroDivisionError")

Ceiling(num, den) == -((-num) \div den)

TimeSaved == linear_time - binary_time

\* C6: with positive per-query savings, the break-even count reported is
\* ceiling(preprocessing cost / savings), whether or not the cost is a
\* multiple of the savings.
C6_BreakEvenIsCeiling ==
    (pc = "analyze_done" /\ TimeSaved > 0) =>
        /\ Len(printed) = 2
        /\ \A k \in 1..Len(printed) :
               printed[k].n = Ceiling(sort_time, TimeSaved)

\* C7: with zero or negative per-query savings, the analyzer reports an
\* explicit "no break-even" outcome and no numeric threshold.
C7_NoBreakEvenReported ==
    (pc = "analyze_done" /\ TimeSaved <= 0) =>
        /\ \E k \in 1..Len(printed) :
               printed[k].text \in {"no break-even", "never breaks even"}
        /\ \A k \in 1..Len(printed) :
               printed[k].text # "Break-even point: n searches"

PreprocessingPathCost(q) == sort_time + q * binary_time

NoPreprocessingPathCost(q) == q * linear_time

\* C8 as stated: with positive savings, for every query count q at or
\* beyond the reported count N the preprocessing path costs less than the
\* no-preprocessing path.
C8_ThresholdAtOrBeyond ==
    (pc = "analyze_done" /\ TimeSaved > 0) =>
        \A q \in 0..MaxQueries :
            q >= printed[1].n =>
                PreprocessingPathCost(q) < NoPreprocessingPathCost(q)

\* C8: with positive savings, for every query count q strictly greater
\* than the reported count N the preprocessing path costs less than the
\* no-preprocessing path.
C8_ThresholdBeyond ==
    (pc = "analyze_done" /\ TimeSaved > 0) =>
        \A q \in 0..MaxQueries :
            q > printed[1].n =>
                PreprocessingPathCost(q) < NoPreprocessingPathCost(q)

\* positive savings that do not divide the sort cost, a reported count of
\* at least 2, and a query count beyond it within the examined range
C8_Witness ==
    /\ pc = "analyze_done"
    /\ TimeSaved > 1
    /\ sort_time % TimeSaved # 0
    /\ Len(printed) = 2
    /\ printed[1].n >= 2
    /\ printed[1].n + 1 <= MaxQueries
    /\ PreprocessingPathCost(printed[1].n + 1)
           < NoPreprocessingPathCost(printed[1].n + 1)

\* C9: on any list and target, sorted or not, binary_search_recursive
\* called without bounds visits the same (left, right, middle) intervals
\* with the same comparison outcomes, in the same order, as
\* binary_search_iterative, and returns the same result.
C9_SameDecisionSequence ==
    (pc = "done") =>
        (rec_trace = iter_trace /\ rec_result[1] = iter_result[1])

\* an unsorted list on which both variants made at least two comparisons
C9_Witness ==
    /\ pc = "done"
    /\ ~IsSorted(data)
    /\ Len(iter_trace) >= 2
    /\ Len(rec_trace) >= 2
    /\ rec_result[1] = iter_result[1]

IterNarrows ==
    (pc = "iter_loop" /\ pc' = "iter_loop") =>
        /\ left' >= left
        /\ right' <= right
        /\ right' - left' < right - left

IterReturns ==
    (pc = "iter_loop" /\ pc' = "rec_call") =>
        \/ iter_result' = <<-1>> /\ left > right
        \/ /\ iter_result'[1] \in Indices(data)
           /\ At(data, iter_result'[1]) = target

RecNarrows ==
    (pc = "rec_body" /\ pc' = "rec_body") =>
        /\ Len(stack') = Len(stack) + 1
        /\ Top(stack').left >= Top(stack).left
        /\ Top(stack').right <= Top(stack).right
        /\ Top(stack').right - Top(stack').left
               < Top(stack).right - Top(stack).left

RecReturns ==
    (pc = "rec_body" /\ pc' = "rec_return") =>
        \/ rec_result' = <<-1>> /\ Top(stack).left > Top(stack).right
        \/ /\ rec_result'[1] \in Indices(data)
           /\ At(data, rec_result'[1]) = target

\* C10: in both bisection variants, on any list, every step that does not
\* return strictly shrinks right - left without lowering left or raising
\* right; a step that returns yields a match, or -1 with left > right; and
\* every call terminates.
C10_ShrinksAndTerminates ==
    /\ [][IterNarrows /\ IterReturns /\ RecNarrows /\ RecReturns]_vars
    /\ (pc = "iter_call") ~> (pc = "rec_call")
    /\ (pc = "rec_call") ~> (pc = "done")

\* an unsorted list on which both variants narrowed the interval twice
\* before returning
C10_Witness ==
    /\ pc = "done"
    /\ ~IsSorted(data)
    /\ Len(iter_trace) >= 3
    /\ Len(rec_trace) >= 3
    /\ left >= 1
    /\ right <= Len(data) - 2

====
